---- MODULE Spec2Model ----
(***************************************************************************)
(* InsightFlow-AI backend: the chat query pipeline (POST /chat/query).     *)
(* A request resolves the chat and the active LLM configuration, stores    *)
(* the user turn, generates SQL with the language model, executes it on    *)
(* the project's DuckDB store, repairs it once when execution fails,       *)
(* interprets the rows and stores the assistant turn.                      *)
(*                                                                         *)
(* Text is modelled with TLA+ strings; the Python string methods the code  *)
(* uses are operators over them.  The language model, the DuckDB engine    *)
(* and the json library are collaborators: the model's replies are drawn   *)
(* from small sets, the engine and json.loads are tables over those texts. *)
(***************************************************************************)
EXTENDS Integers, Sequences, FiniteSets, TLC

(* ------------------------------ bounds --------------------------------- *)

\* Number of query requests that may be in flight or finished in one run.
MaxReq == 2

Reqs == 1..MaxReq

(* ------------------------- Python text helpers ------------------------- *)

\* Python's None (SQL NULL) where the other values are texts.
None == "<None>"

\* Stands for the backquote character U+0060 of the markdown fence, which a
\* TLA+ string literal cannot hold.
Tick == "~"

Fence == Tick \o Tick \o Tick

IsSpace(c) == c \in {" ", "\n", "\t", "\r"}

RECURSIVE lstrip(_)
lstrip(s) ==
    IF Len(s) > 0 /\ IsSpace(SubSeq(s, 1, 1)) THEN lstrip(Tail(s)) ELSE s

RECURSIVE rstrip(_)
rstrip(s) ==
    IF Len(s) > 0 /\ IsSpace(SubSeq(s, Len(s), Len(s)))
    THEN rstrip(SubSeq(s, 1, Len(s) - 1))
    ELSE s

\* str.strip(): whitespace removed at both ends.
strip(s) == rstrip(lstrip(s))

\* str.startswith(p)
startswith(s, p) == Len(s) >= Len(p) /\ SubSeq(s, 1, Len(p)) = p

\* str.replace(old, new): every non-overlapping occurrence, left to right.
RECURSIVE replace(_, _, _)
replace(s, old, new) ==
    IF Len(s) < Len(old) THEN s
    ELSE IF startswith(s, old)
         THEN new \o replace(SubSeq(s, Len(old) + 1, Len(s)), old, new)
         ELSE SubSeq(s, 1, 1) \o replace(Tail(s), old, new)

Digit(d) == SubSeq("0123456789", d + 1, d + 1)

\* str(n) of a natural number, as the f-strings format it.
RECURSIVE IntToStr(_)
IntToStr(n) == IF n < 10 THEN Digit(n) ELSE IntToStr(n \div 10) \o Digit(n % 10)

\* A dict with no keys.
EmptyDict == [k \in {} |-> None]

Min(a, b) == IF a <= b THEN a ELSE b

(* --------------------------- the json library -------------------------- *)

\* Cell values of a result row, as pandas hands them over.
IntVal(n) == [t |-> "int", v |-> n]
Timestamp(n) == [t |-> "Timestamp", v |-> n]

\* A row is a sequence of <<column, value>> pairs; rows are a sequence of rows.
RowSerializable(row) == \A j \in 1..Len(row) : row[j][2].t = "int"

\* json.dumps raises TypeError on a value it has no encoding for.
Serializable(rows) == \A i \in 1..Len(rows) : RowSerializable(rows[i])

RECURSIVE JsonPairs(_)
JsonPairs(row) ==
    IF Len(row) = 0 THEN ""
    ELSE "\"" \o row[1][1] \o "\": " \o IntToStr(row[1][2].v)
         \o (IF Len(row) > 1 THEN ", " ELSE "") \o JsonPairs(Tail(row))

RECURSIVE JsonRows(_)
JsonRows(rows) ==
    IF Len(rows) = 0 THEN ""
    ELSE "{" \o JsonPairs(rows[1]) \o "}"
         \o (IF Len(rows) > 1 THEN ", " ELSE "") \o JsonRows(Tail(rows))

\* json.dumps(rows): the text, or the TypeError.
json_dumps(rows) ==
    IF Serializable(rows)
    THEN [raised |-> FALSE, text |-> "[" \o JsonRows(rows) \o "]"]
    ELSE [raised |-> TRUE,
          exc |-> "Object of type Timestamp is not JSON serializable"]

\* json.loads over the texts the language model produces here: the parsed
\* value with its Python type, or the JSONDecodeError.
JsonFull ==
    "{\"answer\": \"There are 42 rows.\", \"insights\": [], \"visualization_type\": \"bar\"}"
JsonNoViz == "{\"answer\": \"There are 42 rows.\"}"
JsonNoFields == "{}"
JsonList == "[]"
JsonHeatmap == "{\"answer\": \"There are 42 rows.\", \"visualization_type\": \"heatmap\"}"
JsonVizNumber == "{\"answer\": \"There are 42 rows.\", \"visualization_type\": 3}"
NotJson == "There are 42 rows in the table."

\* A JSON number as json.loads returns it: an int, which is no str.
PyInt(n) == "<int " \o IntToStr(n) \o ">"

\* isinstance(value, str)
IsStr(value) == value # None /\ ~startswith(value, "<int ")

\* Schema descriptors as stored in projects.schema_json: the one generated by
\* the model, the raw one, and one edited by the user.
SchemaGenerated == "{\"tables\": [{\"table_name\": \"data\", \"description\": \"Sales\"}]}"
SchemaRaw == "{\"tables\": [{\"table_name\": \"data\"}]}"
SchemaEdited == "{\"tables\": []}"

json_loads(text) ==
    CASE text = JsonFull ->
            [raised |-> FALSE, type |-> "dict",
             value |-> [answer |-> "There are 42 rows.", insights |-> <<>>,
                        visualization_type |-> "bar"]]
      [] text = JsonNoViz ->
            [raised |-> FALSE, type |-> "dict",
             value |-> [answer |-> "There are 42 rows."]]
      [] text = JsonNoFields ->
            [raised |-> FALSE, type |-> "dict", value |-> EmptyDict]
      [] text \in {SchemaGenerated, SchemaRaw, SchemaEdited} ->
            [raised |-> FALSE, type |-> "dict", value |-> [tables |-> text]]
      [] text = JsonList ->
            [raised |-> FALSE, type |-> "list", value |-> <<>>]
      [] text = JsonHeatmap ->
            [raised |-> FALSE, type |-> "dict",
             value |-> [answer |-> "There are 42 rows.", visualization_type |-> "heatmap"]]
      [] text = JsonVizNumber ->
            [raised |-> FALSE, type |-> "dict",
             value |-> [answer |-> "There are 42 rows.", visualization_type |-> PyInt(3)]]
      [] OTHER ->
            [raised |-> TRUE, exc |-> "Expecting value: line 1 column 1 (char 0)"]

(* ----------------------------- credentials ----------------------------- *)

\* settings.ENCRYPTION_KEY of the running deployment.
ENCRYPTION_KEY == "fernet-key-current"

\* A Fernet token: readable only under the key that made it.
FernetToken(key, plain) == [key |-> key, plain |-> plain]

encrypt_api_key(api_key) == FernetToken(ENCRYPTION_KEY, api_key)

\* cipher_suite.decrypt raises InvalidToken (whose str() is empty) on a token
\* made under another key.
decrypt_api_key(encrypted_key) ==
    IF encrypted_key.key = ENCRYPTION_KEY
    THEN [raised |-> FALSE, value |-> encrypted_key.plain]
    ELSE [raised |-> TRUE, exc |-> ""]

(* --------------------------- the DuckDB store -------------------------- *)

DUCKDB_PATH == "./data/duckdb_files"

\* DuckDBManager.create_db_for_user: the store file of a user's project.
create_db_for_user(user_id, project_id) ==
    DUCKDB_PATH \o "/user_" \o IntToStr(user_id) \o "_project_"
        \o IntToStr(project_id) \o ".duckdb"

SqlCount == "SELECT COUNT(*) FROM data"
SqlDates == "SELECT d FROM data LIMIT 1"
SqlBad == "SELEC COUNT(*) FROM data"
SqlBadAgain == "SELECT COUNT(*) FROM dat"

\* Rows the interpreter's prompt previews.
PreviewRows == 10

\* The engine on the ingested table `data` of a store: conn.execute(sql)
\* .fetchdf().to_dict('records'), or the engine's error.  A column has one
\* type, so a column of dates holds a Timestamp in every row.
Engine(db_path, sql) ==
    CASE sql = SqlCount ->
            [ok |-> TRUE, columns |-> <<"n">>,
             rows |-> << << <<"n", IntVal(42)>> >> >>]
      [] sql = SqlDates ->
            [ok |-> TRUE, columns |-> <<"d">>,
             rows |-> << << <<"d", Timestamp(20240101)>> >> >>]
      [] sql = SqlBadAgain ->
            [ok |-> FALSE,
             error |-> "Catalog Error: Table with name dat does not exist!"]
      [] OTHER ->
            [ok |-> FALSE,
             error |-> "Parser Error: syntax error at or near \"SELEC\""]

\* The engine's error replaced by a message of the manager's own.
MutExecuteQuery(db_path, sql) ==
    LET result == Engine(db_path, sql)
    IN  IF result.ok
        THEN [success |-> TRUE, data |-> result.rows,
              columns |-> result.columns, row_count |-> Len(result.rows)]
        ELSE [success |-> FALSE, error |-> "Query failed", sql |-> sql]

\* DuckDBManager.execute_query on an open connection to db_path.
execute_query(db_path, sql) ==
    LET result == Engine(db_path, sql)
    IN  IF result.ok
        THEN [success |-> TRUE, data |-> result.rows,
              columns |-> result.columns, row_count |-> Len(result.rows)]
        ELSE [success |-> FALSE, error |-> result.error, sql |-> sql]

(* --------------------------- the language model ------------------------ *)

\* One llm.invoke: the reply's content, or the call raising.
LLMRaises == [raised |-> TRUE, exc |-> "Connection error."]
LLMReplies(texts) == {[raised |-> FALSE, content |-> t] : t \in texts}

GenReplies ==
    {SqlCount, Fence \o "sql\n" \o SqlCount \o "\n" \o Fence, SqlBad, SqlDates}
FixReplies == {Fence \o "\n" \o SqlCount \o "\n" \o Fence, SqlBadAgain}
InterpretReplies ==
    {JsonFull, JsonNoViz, JsonNoFields, JsonList, JsonHeatmap, JsonVizNumber, NotJson}

GenResponses == {LLMRaises} \cup LLMReplies(GenReplies)
FixResponses == {LLMRaises} \cup LLMReplies(FixReplies)
InterpretResponses == {LLMRaises} \cup LLMReplies(InterpretReplies)

Providers == {"openai", "google", "anthropic"}

\* LLMService.__init__ / _initialize_llm
LLMService(provider, api_key) ==
    IF provider \in Providers
    THEN [raised |-> FALSE, provider |-> provider, api_key |-> api_key]
    ELSE [raised |-> TRUE, exc |-> "Unsupported provider: " \o provider]

\* The clean-up of a generated statement (markdown code blocks removed).
StripCodeBlock(content) ==
    LET sql_query == strip(content)
    IN  IF startswith(sql_query, Fence \o "sql")
        THEN strip(replace(replace(sql_query, Fence \o "sql", ""), Fence, ""))
        ELSE IF startswith(sql_query, Fence)
             THEN strip(replace(sql_query, Fence, ""))
             ELSE sql_query

\* The clean-up, computed once for each text the model replies with.
CleanedReplies == [content \in GenReplies \cup FixReplies |-> StripCodeBlock(content)]

CleanSql(content) ==
    IF content \in DOMAIN CleanedReplies THEN CleanedReplies[content]
    ELSE StripCodeBlock(content)

\* LLMService.text_to_sql, given what llm.invoke did.
text_to_sql(user_query, schema_json, chat_history, response) ==
    IF response.raised
    THEN [success |-> FALSE, error |-> response.exc]
    ELSE [success |-> TRUE, sql |-> CleanSql(response.content)]

\* LLMService.fix_sql_error, given what llm.invoke did.
fix_sql_error(original_sql, error_message, schema_json, response) ==
    IF response.raised
    THEN [success |-> FALSE, error |-> response.exc]
    ELSE [success |-> TRUE, sql |-> CleanSql(response.content)]

\* The first PreviewRows rows, which the prompt serializes before the call.
Preview(query_results) == SubSeq(query_results, 1, Min(PreviewRows, Len(query_results)))

\* LLMService.interpret_results, given what llm.invoke did.  The preview is
\* serialized outside the try block, so its TypeError leaves the method.
interpret_results(user_query, sql_query, query_results, response) ==
    IF json_dumps(Preview(query_results)).raised
    THEN [raised |-> TRUE, exc |-> json_dumps(Preview(query_results)).exc]
    ELSE IF response.raised
    THEN [raised |-> FALSE, success |-> FALSE, error |-> response.exc]
    ELSE LET parsed == json_loads(strip(response.content))
         IN  IF ~parsed.raised
             THEN [raised |-> FALSE, success |-> TRUE,
                   interpretation |-> [type |-> parsed.type, value |-> parsed.value]]
             ELSE [raised |-> FALSE, success |-> TRUE,
                   interpretation |->
                      [type |-> "dict",
                       value |-> [answer |-> "Found " \o IntToStr(Len(query_results))
                                                \o " results.",
                                  insights |-> <<>>,
                                  visualization_type |-> "table"]]]

\* dict.get(key, default)
DictGet(d, key, default) == IF key \in DOMAIN d THEN d[key] ELSE default

(* ------------------------------- the data ------------------------------ *)

UserIds == {1, 2, 3}
ChatIds == {1, 2, 3}
Questions == {"How many rows are there?"}

\* Turns the generator is given (the .limit() of the history query).
HistoryLimit == 5

\* A row of the messages table.  `req` is not a column: it names the request
\* that wrote the row, for the properties.  created_at is 0 until the row is
\* inserted and the server default fills it.
Message(chat_id, role, content, sql_query, query_result, error_message, req) ==
    [chat_id |-> chat_id, role |-> role, content |-> content,
     sql_query |-> sql_query, query_result |-> query_result,
     error_message |-> error_message, created_at |-> 0, req |-> req]

\* The row as inserted when the database clock reads `now`.
Stamped(message, now) == [message EXCEPT !.created_at = now]

\* An LLMConfig row.
LLMConfig(id, user_id, provider, encrypted_api_key, is_active) ==
    [id |-> id, user_id |-> user_id, provider |-> provider,
     encrypted_api_key |-> encrypted_api_key, is_active |-> is_active]

\* The configurations when the questions arrive: user 1 has an active one made
\* under the current key, user 2 an active one made before the key was
\* replaced, user 3 only a deactivated one.
InitConfigs ==
    { LLMConfig(1, 1, "openai", encrypt_api_key("sk-live-1"), 1),
      LLMConfig(2, 2, "anthropic", FernetToken("fernet-key-old", "sk-live-2"), 1),
      LLMConfig(3, 3, "google", encrypt_api_key("sk-live-3"), 0) }

\* Each user owns one project with its own store and one chat on it.
InitProjects ==
    { [id |-> u, user_id |-> u, duckdb_file_path |-> create_db_for_user(u, u),
       schema_json |-> IF u = 1 THEN "{}" ELSE None] : u \in UserIds }

InitChats == { [id |-> u, user_id |-> u, project_id |-> u] : u \in UserIds }

VARIABLES
    llm_configs,   \* the llm_configs table: a set of rows
    projects,      \* the projects table
    chats,         \* the chats table
    messages,      \* the messages table, in order of commit
    pc,            \* per request: where query_data is
    inp,           \* per request: current_user.id and the ChatQueryRequest
    loc,           \* per request: the local variables of query_data
    conn,          \* per request: the store its DuckDBManager has open, or None
    resp,          \* per request: what the caller got
    obs,           \* per request: the calls made to the collaborators
    last_op,       \* the last operation other than query_data, and its outcome
    n_ops          \* how many such operations have been called

vars == <<llm_configs, projects, chats, messages, pc, inp, loc, conn, resp, obs,
          last_op, n_ops>>

\* What query_data does not write.
tables == <<llm_configs, projects, chats, last_op, n_ops>>

\* What belongs to the query requests.
requests == <<pc, inp, loc, conn, resp, obs>>

NoInput == [user |-> 0, chat_id |-> 0, query |-> None]

NoLocals ==
    [llm_config |-> 0, sql_query |-> None, query_result |-> [unset |-> TRUE],
     chat_history |-> <<>>, answer |-> None, viz_type |-> None, exc |-> None]

NoResponse == [status |-> 0]

NoOp == [op |-> "none"]

\* generation, repair: "ok" or "failed" per call; executions: the statement
\* and the outcome per call; interpretation: what llm.invoke did per call;
\* opened: the store file per connection opened; raised_in: where an
\* exception was raised inside the try block, if one was.
NoCalls ==
    [generation |-> <<>>, executions |-> <<>>, repair |-> <<>>,
     interpretation |-> <<>>, opened |-> <<>>, raised_in |-> None]

Init ==
    /\ llm_configs = InitConfigs
    /\ projects = InitProjects
    /\ chats = InitChats
    /\ messages = <<>>
    /\ pc = [r \in Reqs |-> "idle"]
    /\ inp = [r \in Reqs |-> NoInput]
    /\ loc = [r \in Reqs |-> NoLocals]
    /\ conn = [r \in Reqs |-> None]
    /\ resp = [r \in Reqs |-> NoResponse]
    /\ obs = [r \in Reqs |-> NoCalls]
    /\ last_op = NoOp
    /\ n_ops = 0

(* ------------------------------ query_data ----------------------------- *)

\* db.query(Chat).filter(Chat.id == chat_id, Chat.user_id == user).first()
FindChat(chat_id, user) == {c \in chats : c.id = chat_id /\ c.user_id = user}

\* db.query(LLMConfig).filter(user_id == user, is_active == 1).first()
ActiveConfig(user) == {c \in llm_configs : c.user_id = user /\ c.is_active = 1}

ProjectOf(chat_id) ==
    LET chat == CHOOSE c \in chats : c.id = chat_id
    IN  CHOOSE p \in projects : p.id = chat.project_id

\* str() of an HTTPException
HTTPExceptionStr(status_code, detail) == IntToStr(status_code) \o ": " \o detail

\* The failure the caller gets.
HTTPError(status_code, detail) == [status |-> status_code, detail |-> detail]

\* ChatQueryResponse; data is <<>> for None and <<rows>> for rows.
ChatQueryResponse(message, data, visualization_type) ==
    [status |-> 200, message |-> message, data |-> data,
     visualization_type |-> visualization_type]

\* The validation pydantic runs when a ChatQueryResponse is built:
\* visualization_type is Optional[str].
ValidateResponse(visualization_type) ==
    IF visualization_type = None \/ IsStr(visualization_type)
    THEN [raised |-> FALSE]
    ELSE [raised |-> TRUE, exc |-> "1 validation error for ChatQueryResponse"]

\* The turns of a chat, oldest first.
TurnsOf(chat_id) == SelectSeq(messages, LAMBDA m : m.chat_id = chat_id)

\* The history query: the newest HistoryLimit turns of the chat, reversed to
\* oldest first, as {role, content}.  The query orders by created_at alone,
\* so rows with the same created_at come in whatever order the database
\* returns them: every order it may return is one outcome.
RECURSIVE OrderByCreatedAtDesc(_)
OrderByCreatedAtDesc(rows) ==
    IF rows = {} THEN {<<>>}
    ELSE UNION { { <<i>> \o rest : rest \in OrderByCreatedAtDesc(rows \ {i}) } :
                 i \in {i \in rows :
                          \A j \in rows : messages[i].created_at >= messages[j].created_at} }

RecentHistory(chat_id) ==
    LET rows == {i \in 1..Len(messages) : messages[i].chat_id = chat_id}
        n == Min(HistoryLimit, Cardinality(rows))
    IN  { [i \in 1..n |-> [role |-> messages[previous_messages[n + 1 - i]].role,
                           content |-> messages[previous_messages[n + 1 - i]].content]] :
          previous_messages \in OrderByCreatedAtDesc(rows) }

\* func.now() when a row is inserted: the clock has a resolution, so a row
\* gets the created_at of the row inserted before it or a later one.
LastStamp == IF messages = <<>> THEN 0 ELSE messages[Len(messages)].created_at
Now == {t \in {LastStamp, LastStamp + 1} : t >= 1}

\* Lines 135-142: the user turn is added and committed.
StoreUserMessage(table, chat_id, query, r, now) ==
    Append(table, Stamped(Message(chat_id, "user", query, None, None, None, r), now))

\* The order a careless change would give: the user turn stored before the
\* configuration is looked at.
MutResolveAndStore(u, c, q, r, now) ==
    IF FindChat(c, u) = {}
    THEN [error |-> HTTPError(404, "Chat not found"), messages |-> messages]
    ELSE IF ActiveConfig(u) = {}
    THEN [error |-> HTTPError(400,
              "No active LLM configuration. Please configure your API key."),
          messages |-> StoreUserMessage(messages, c, q, r, now)]
    ELSE [error |-> NoResponse, messages |-> StoreUserMessage(messages, c, q, r, now)]

\* The user turn left uncommitted.
MutResolveNoStore(u, c, q, r, now) ==
    IF FindChat(c, u) = {}
    THEN [error |-> HTTPError(404, "Chat not found"), messages |-> messages]
    ELSE IF ActiveConfig(u) = {}
    THEN [error |-> HTTPError(400,
              "No active LLM configuration. Please configure your API key."),
          messages |-> messages]
    ELSE [error |-> NoResponse, messages |-> messages]

\* Lines 106-142: the chat is looked up (404), then the active configuration
\* (400), and only then is the user turn stored.
ResolveAndStore(u, c, q, r, now) ==
    IF FindChat(c, u) = {}
    THEN [error |-> HTTPError(404, "Chat not found"), messages |-> messages]
    ELSE IF ActiveConfig(u) = {}
    THEN [error |-> HTTPError(400,
              "No active LLM configuration. Please configure your API key."),
          messages |-> messages]
    ELSE [error |-> NoResponse, messages |-> StoreUserMessage(messages, c, q, r, now)]

\* Lines 100-142: a question arrives.  Requests are numbered in the order
\* they arrive.
QueryStart(r, u, c, q) ==
    /\ pc[r] = "idle"
    /\ \A s \in Reqs : s < r => pc[s] # "idle"
    /\ inp' = [inp EXCEPT ![r] = [user |-> u, chat_id |-> c, query |-> q]]
    /\ \E now \in Now :
       LET started == ResolveAndStore(u, c, q, r, now)
       IN  /\ messages' = started.messages
           /\ resp' = [resp EXCEPT ![r] = started.error]
           /\ IF started.error # NoResponse
              THEN /\ pc' = [pc EXCEPT ![r] = "done"]
                   /\ UNCHANGED loc
              ELSE /\ pc' = [pc EXCEPT ![r] = "setup"]
                   /\ loc' = [loc EXCEPT ![r].llm_config =
                                 (CHOOSE k \in ActiveConfig(u) : TRUE).id]
    /\ UNCHANGED <<tables, conn, obs>>

\* Lines 145-162: the key is decrypted, the model client built, the schema
\* parsed and the recent history read.
Setup(r) ==
    /\ pc[r] = "setup"
    /\ LET llm_config == CHOOSE k \in llm_configs : k.id = loc[r].llm_config
           api_key == decrypt_api_key(llm_config.encrypted_api_key)
           llm_service == LLMService(llm_config.provider, api_key.value)
           project == ProjectOf(inp[r].chat_id)
           schema_json == IF project.schema_json # None
                          THEN json_loads(project.schema_json)
                          ELSE [raised |-> FALSE, type |-> "dict", value |-> EmptyDict]
       IN  IF api_key.raised
           THEN /\ loc' = [loc EXCEPT ![r].exc = api_key.exc]
                /\ obs' = [obs EXCEPT ![r].raised_in = "decrypt_api_key"]
                /\ pc' = [pc EXCEPT ![r] = "except"]
           ELSE IF llm_service.raised
           THEN /\ loc' = [loc EXCEPT ![r].exc = llm_service.exc]
                /\ obs' = [obs EXCEPT ![r].raised_in = "LLMService"]
                /\ pc' = [pc EXCEPT ![r] = "except"]
           ELSE IF schema_json.raised
           THEN /\ loc' = [loc EXCEPT ![r].exc = schema_json.exc]
                /\ obs' = [obs EXCEPT ![r].raised_in = "json.loads"]
                /\ pc' = [pc EXCEPT ![r] = "except"]
           ELSE /\ \E chat_history \in RecentHistory(inp[r].chat_id) :
                      loc' = [loc EXCEPT ![r].chat_history = chat_history]
                /\ pc' = [pc EXCEPT ![r] = "generate"]
                /\ UNCHANGED obs
    /\ UNCHANGED <<tables, messages, inp, conn, resp>>

\* DuckDBManager.__enter__: the connection opened on the store file.
DuckDBEnter(db_path) == db_path

\* The connection left open.
MutDuckDBExit(connection) == connection

\* DuckDBManager.__exit__: the connection is closed.
DuckDBExit(connection) == None

\* Generation that failed taken on to execution.
MutAfterGeneration(sql_result) == "execute"

\* Lines 167-173: a reported failure is raised, a statement goes on to execution.
AfterGeneration(sql_result) == IF ~sql_result.success THEN "except" ELSE "execute"

\* The result of the execution not looked at before interpreting.
MutAfterExecution(query_result) == "interpret"

\* Line 180: a failed execution is repaired.
AfterExecution(query_result) == IF query_result.success THEN "interpret" ELSE "repair"

\* A repair loop: the failed re-execution repaired again.
MutAfterReExecution(query_result) == AfterExecution(query_result)

\* Line 189: a failed re-execution is not repaired again.
AfterReExecution(query_result) ==
    IF query_result.success THEN "interpret" ELSE "store_error"

\* Lines 164-173: one generation call; a reported failure is raised as an
\* HTTPException inside the try block.
GenerateSql(r) ==
    /\ pc[r] = "generate"
    /\ \E response \in GenResponses :
       LET sql_result == text_to_sql(inp[r].query, ProjectOf(inp[r].chat_id).schema_json,
                                     loc[r].chat_history, response)
       IN  IF ~sql_result.success
           THEN /\ loc' = [loc EXCEPT ![r].exc =
                      HTTPExceptionStr(500, "Failed to generate SQL: " \o sql_result.error)]
                /\ obs' = [obs EXCEPT ![r].generation = Append(@, "failed"),
                                      ![r].raised_in = "text_to_sql"]
                /\ pc' = [pc EXCEPT ![r] = AfterGeneration(sql_result)]
           ELSE /\ loc' = [loc EXCEPT ![r].sql_query = sql_result.sql]
                /\ obs' = [obs EXCEPT ![r].generation = Append(@, "ok")]
                /\ pc' = [pc EXCEPT ![r] = AfterGeneration(sql_result)]
    /\ UNCHANGED <<tables, messages, inp, conn, resp>>

\* Lines 176-180: the store is opened and the statement executed.
Execute(r) ==
    /\ pc[r] = "execute"
    /\ LET db_path == ProjectOf(inp[r].chat_id).duckdb_file_path
           query_result == execute_query(db_path, loc[r].sql_query)
       IN  /\ conn' = [conn EXCEPT ![r] = DuckDBEnter(db_path)]
           /\ loc' = [loc EXCEPT ![r].query_result = query_result]
           /\ obs' = [obs EXCEPT ![r].opened = Append(@, db_path),
                                 ![r].executions =
                                     Append(@, [sql |-> loc[r].sql_query,
                                                result |-> query_result])]
           /\ pc' = [pc EXCEPT ![r] = AfterExecution(query_result)]
    /\ UNCHANGED <<tables, messages, inp, resp>>

\* Lines 180-186: the repair call, made after a failed execution.
Repair(r) ==
    /\ pc[r] = "repair"
    /\ \E response \in FixResponses :
       LET fix_result == fix_sql_error(loc[r].sql_query, loc[r].query_result.error,
                                       ProjectOf(inp[r].chat_id).schema_json, response)
       IN  IF fix_result.success
           THEN /\ loc' = [loc EXCEPT ![r].sql_query = fix_result.sql]
                /\ obs' = [obs EXCEPT ![r].repair = Append(@, "ok")]
                /\ pc' = [pc EXCEPT ![r] = "reexecute"]
           ELSE /\ obs' = [obs EXCEPT ![r].repair = Append(@, "failed")]
                /\ pc' = [pc EXCEPT ![r] = "store_error"]
                /\ UNCHANGED loc
    /\ UNCHANGED <<tables, messages, inp, conn, resp>>

\* Line 187: the repaired statement is executed on the same connection.
ReExecute(r) ==
    /\ pc[r] = "reexecute"
    /\ LET query_result == execute_query(conn[r], loc[r].sql_query)
       IN  /\ loc' = [loc EXCEPT ![r].query_result = query_result]
           /\ obs' = [obs EXCEPT ![r].executions =
                                     Append(@, [sql |-> loc[r].sql_query,
                                                result |-> query_result])]
           /\ pc' = [pc EXCEPT ![r] = AfterReExecution(query_result)]
    /\ UNCHANGED <<tables, messages, inp, conn, resp>>

\* The error turn without the statement that failed.
MutErrorTurn(chat_id, sql_query, error, r) ==
    Message(chat_id, "assistant", "I encountered an error: " \o error,
            None, None, error, r)

\* The assistant turn of lines 191-197.
ErrorTurn(chat_id, sql_query, error, r) ==
    Message(chat_id, "assistant", "I encountered an error: " \o error,
            sql_query, None, error, r)

\* Lines 189-206: the last execution failed; the error turn is stored and
\* returned, and the with block is left.
StoreError(r) ==
    /\ pc[r] = "store_error"
    /\ \E now \in Now :
       LET assistant_message ==
               Stamped(ErrorTurn(inp[r].chat_id, loc[r].sql_query,
                                 loc[r].query_result.error, r), now)
       IN  /\ messages' = Append(messages, assistant_message)
           /\ resp' = [resp EXCEPT ![r] = ChatQueryResponse(assistant_message, <<>>, None)]
    /\ conn' = [conn EXCEPT ![r] = DuckDBExit(@)]
    /\ pc' = [pc EXCEPT ![r] = "done"]
    /\ UNCHANGED <<tables, inp, loc, obs>>

\* The interpreter's reported failure raised, as the generator's is.
MutReadInterpretation(interpret_result, row_count) ==
    IF ~interpret_result.success
    THEN [raised |-> TRUE, exc |-> interpret_result.error]
    ELSE [raised |-> FALSE,
          answer |-> "Found " \o IntToStr(row_count) \o " results.",
          viz_type |-> "table"]

\* Lines 213-215: what query_data takes from the interpreter's result.
ReadInterpretation(interpret_result, row_count) ==
    LET interpretation ==
            IF "interpretation" \in DOMAIN interpret_result
            THEN interpret_result.interpretation
            ELSE [type |-> "dict", value |-> EmptyDict]
    IN  IF interpretation.type # "dict"
        THEN [raised |-> TRUE,
              exc |-> "'" \o interpretation.type \o "' object has no attribute 'get'"]
        ELSE [raised |-> FALSE,
              answer |-> DictGet(interpretation.value, "answer",
                                 "Found " \o IntToStr(row_count) \o " results."),
              viz_type |-> DictGet(interpretation.value, "visualization_type", "table")]

\* Lines 208-215: the interpretation call after an execution that succeeded.
Interpret(r) ==
    /\ pc[r] = "interpret"
    /\ \E response \in InterpretResponses :
       LET interpret_result ==
               interpret_results(inp[r].query, loc[r].sql_query,
                                 loc[r].query_result.data, response)
           read == ReadInterpretation(interpret_result, loc[r].query_result.row_count)
       IN  IF interpret_result.raised
           THEN /\ loc' = [loc EXCEPT ![r].exc = interpret_result.exc]
                /\ obs' = [obs EXCEPT ![r].raised_in = "interpret_results"]
                /\ conn' = [conn EXCEPT ![r] = DuckDBExit(@)]
                /\ pc' = [pc EXCEPT ![r] = "except"]
           ELSE IF read.raised
           THEN /\ loc' = [loc EXCEPT ![r].exc = read.exc]
                /\ obs' = [obs EXCEPT ![r].interpretation = Append(@, response),
                                      ![r].raised_in = "interpretation.get"]
                /\ conn' = [conn EXCEPT ![r] = DuckDBExit(@)]
                /\ pc' = [pc EXCEPT ![r] = "except"]
           ELSE /\ loc' = [loc EXCEPT ![r].answer = read.answer,
                                      ![r].viz_type = read.viz_type]
                /\ obs' = [obs EXCEPT ![r].interpretation = Append(@, response)]
                /\ pc' = [pc EXCEPT ![r] = "store_answer"]
                /\ UNCHANGED conn
    /\ UNCHANGED <<tables, messages, inp, resp>>

\* The answer turn without the rows.
MutAnswerTurn(chat_id, answer, sql_query, query_result_text, r) ==
    Message(chat_id, "assistant", answer, sql_query, None, None, r)

\* The assistant turn of lines 218-224.
AnswerTurn(chat_id, answer, sql_query, query_result_text, r) ==
    Message(chat_id, "assistant", answer, sql_query, query_result_text, None, r)

\* Lines 217-233: the rows are serialized, the answer turn stored and
\* returned, and the with block is left.  The response is built after the
\* commit, so a response that does not validate raises with the turn stored.
StoreAnswer(r) ==
    /\ pc[r] = "store_answer"
    /\ \E now \in Now :
       LET dumped == json_dumps(loc[r].query_result.data)
           assistant_message ==
               Stamped(AnswerTurn(inp[r].chat_id, loc[r].answer, loc[r].sql_query,
                                  dumped.text, r), now)
       IN  IF dumped.raised
           THEN /\ loc' = [loc EXCEPT ![r].exc = dumped.exc]
                /\ obs' = [obs EXCEPT ![r].raised_in = "json.dumps"]
                /\ pc' = [pc EXCEPT ![r] = "except"]
                /\ UNCHANGED <<messages, resp>>
           ELSE IF ValidateResponse(loc[r].viz_type).raised
           THEN /\ messages' = Append(messages, assistant_message)
                /\ loc' = [loc EXCEPT ![r].exc = ValidateResponse(loc[r].viz_type).exc]
                /\ obs' = [obs EXCEPT ![r].raised_in = "ChatQueryResponse"]
                /\ pc' = [pc EXCEPT ![r] = "except"]
                /\ UNCHANGED resp
           ELSE /\ messages' = Append(messages, assistant_message)
                /\ resp' = [resp EXCEPT ![r] =
                      ChatQueryResponse(assistant_message, <<loc[r].query_result.data>>,
                                        loc[r].viz_type)]
                /\ pc' = [pc EXCEPT ![r] = "done"]
                /\ UNCHANGED <<loc, obs>>
    /\ conn' = [conn EXCEPT ![r] = DuckDBExit(@)]
    /\ UNCHANGED <<tables, inp>>

\* The assistant turn of lines 237-242.
ExceptionTurn(chat_id, e, r) ==
    Message(chat_id, "assistant", "An error occurred: " \o e, None, None, e, r)

\* An HTTPException raised again as it is, before the handler that stores.
MutHandleException(r) ==
    /\ pc[r] = "except"
    /\ \E now \in Now :
          messages' = IF obs[r].raised_in = "text_to_sql"
                      THEN messages
                      ELSE Append(messages, Stamped(Message(inp[r].chat_id, "assistant",
                                      "An error occurred: " \o loc[r].exc,
                                      None, None, loc[r].exc, r), now))
    /\ resp' = [resp EXCEPT ![r] = HTTPError(500, loc[r].exc)]
    /\ pc' = [pc EXCEPT ![r] = "done"]
    /\ UNCHANGED <<tables, inp, loc, conn, obs>>

\* The exception stored and answered instead of raised again.
MutSwallowException(r) ==
    /\ pc[r] = "except"
    /\ \E now \in Now :
       LET assistant_message ==
               Stamped(Message(inp[r].chat_id, "assistant",
                               "An error occurred: " \o loc[r].exc,
                               None, None, loc[r].exc, r), now)
       IN  /\ messages' = Append(messages, assistant_message)
           /\ resp' = [resp EXCEPT ![r] = ChatQueryResponse(assistant_message, <<>>, None)]
    /\ pc' = [pc EXCEPT ![r] = "done"]
    /\ UNCHANGED <<tables, inp, loc, conn, obs>>

\* Lines 235-250: any exception of the try block is stored as an assistant
\* turn and raised again as a 500.
HandleException(r) ==
    /\ pc[r] = "except"
    /\ \E now \in Now :
          messages' = Append(messages, Stamped(ExceptionTurn(inp[r].chat_id, loc[r].exc, r), now))
    /\ resp' = [resp EXCEPT ![r] = HTTPError(500, loc[r].exc)]
    /\ pc' = [pc EXCEPT ![r] = "done"]
    /\ UNCHANGED <<tables, inp, loc, conn, obs>>

Next ==
    \/ \E r \in Reqs, u \in UserIds, c \in ChatIds, q \in Questions : QueryStart(r, u, c, q)
    \/ \E r \in Reqs : Setup(r)
    \/ \E r \in Reqs : GenerateSql(r)
    \/ \E r \in Reqs : Execute(r)
    \/ \E r \in Reqs : Repair(r)
    \/ \E r \in Reqs : ReExecute(r)
    \/ \E r \in Reqs : StoreError(r)
    \/ \E r \in Reqs : Interpret(r)
    \/ \E r \in Reqs : StoreAnswer(r)
    \/ \E r \in Reqs : HandleException(r)

Spec == Init /\ [][Next]_vars

(* ------------------- query_data when its environment fails ------------ *)

\* What the database and the store raise when they fail.
CommitError == "(OperationalError) could not commit"
ConnectError == "IO Error: Could not set lock on file"
PromptError == "MemoryError"
RefreshError == "(OperationalError) server closed the connection unexpectedly"

\* An exception raised inside the try block at `site`; when the with block
\* of line 176 has been entered it is left through DuckDBManager.__exit__.
RaiseInTry(r, site, e) ==
    /\ loc' = [loc EXCEPT ![r].exc = e]
    /\ obs' = [obs EXCEPT ![r].raised_in = site]
    /\ conn' = [conn EXCEPT ![r] = IF @ = None THEN None ELSE DuckDBExit(@)]
    /\ pc' = [pc EXCEPT ![r] = "except"]
    /\ UNCHANGED <<tables, messages, inp, resp>>

\* Line 176 / __enter__: duckdb.connect raises, no connection is opened.
ConnectRaises(r) ==
    /\ pc[r] = "execute"
    /\ RaiseInTry(r, "duckdb.connect", ConnectError)

\* Lines 181-183: an exception leaves fix_sql_error (its prompt is built
\* outside its try block).
RepairRaises(r) ==
    /\ pc[r] = "repair"
    /\ RaiseInTry(r, "fix_sql_error", PromptError)

\* Lines 198-199: the commit of the error turn raises; the turn is rolled back.
StoreErrorRaises(r) ==
    /\ pc[r] = "store_error"
    /\ RaiseInTry(r, "db.commit", CommitError)

\* Lines 225-226: the commit of the answer turn raises; the turn is rolled back.
StoreAnswerRaises(r) ==
    /\ pc[r] = "store_answer"
    /\ ~json_dumps(loc[r].query_result.data).raised
    /\ RaiseInTry(r, "db.commit", CommitError)

\* Lines 198-200: the error turn is committed and its refresh raises.
StoreErrorRefreshRaises(r) ==
    /\ pc[r] = "store_error"
    /\ \E now \in Now :
          messages' = Append(messages,
              Stamped(ErrorTurn(inp[r].chat_id, loc[r].sql_query,
                                loc[r].query_result.error, r), now))
    /\ loc' = [loc EXCEPT ![r].exc = RefreshError]
    /\ obs' = [obs EXCEPT ![r].raised_in = "db.refresh"]
    /\ conn' = [conn EXCEPT ![r] = DuckDBExit(@)]
    /\ pc' = [pc EXCEPT ![r] = "except"]
    /\ UNCHANGED <<tables, inp, resp>>

\* Lines 225-227: the answer turn is committed and its refresh raises.
StoreAnswerRefreshRaises(r) ==
    /\ pc[r] = "store_answer"
    /\ ~json_dumps(loc[r].query_result.data).raised
    /\ \E now \in Now :
          messages' = Append(messages,
              Stamped(AnswerTurn(inp[r].chat_id, loc[r].answer, loc[r].sql_query,
                                 json_dumps(loc[r].query_result.data).text, r), now))
    /\ loc' = [loc EXCEPT ![r].exc = RefreshError]
    /\ obs' = [obs EXCEPT ![r].raised_in = "db.refresh"]
    /\ conn' = [conn EXCEPT ![r] = DuckDBExit(@)]
    /\ pc' = [pc EXCEPT ![r] = "except"]
    /\ UNCHANGED <<tables, inp, resp>>

\* Lines 243-244: the commit in the handler raises; the exception leaves
\* query_data and the framework answers 500.
HandleExceptionRaises(r) ==
    /\ pc[r] = "except"
    /\ resp' = [resp EXCEPT ![r] = HTTPError(500, "Internal Server Error")]
    /\ obs' = [obs EXCEPT ![r].raised_in = "handler"]
    /\ pc' = [pc EXCEPT ![r] = "done"]
    /\ UNCHANGED <<tables, messages, inp, loc, conn>>

FaultNext ==
    \/ \E r \in Reqs, u \in UserIds, c \in ChatIds, q \in Questions : QueryStart(r, u, c, q)
    \/ \E r \in Reqs : Setup(r)
    \/ \E r \in Reqs : GenerateSql(r)
    \/ \E r \in Reqs : Execute(r)
    \/ \E r \in Reqs : Repair(r)
    \/ \E r \in Reqs : ReExecute(r)
    \/ \E r \in Reqs : StoreError(r)
    \/ \E r \in Reqs : Interpret(r)
    \/ \E r \in Reqs : StoreAnswer(r)
    \/ \E r \in Reqs : HandleException(r)
    \/ \E r \in Reqs : ConnectRaises(r)
    \/ \E r \in Reqs : RepairRaises(r)
    \/ \E r \in Reqs : StoreErrorRaises(r)
    \/ \E r \in Reqs : StoreAnswerRaises(r)
    \/ \E r \in Reqs : HandleExceptionRaises(r)

FaultSpec == Init /\ [][FaultNext]_vars

(* --------------------------- LLM configurations ------------------------ *)

\* Operations on configurations in one run, and the ids a row can get.
MaxConfigOps == 3
MaxConfigId == 5
ConfigIds == 1..MaxConfigId
ApiKeys == {"sk-new"}

\* The autoincrement primary key of a new row: greater than every id in the
\* table (an id above a deleted row's may or may not be used again).
NewIds(table, ids) == {id \in ids : \A row \in table : id > row.id}

\* The configurations of the user left as they are.
MutDeactivateAll(table, user) == table

\* Lines 25-27 of llm_config.py: every configuration of the user is set inactive.
DeactivateAll(table, user) ==
    {IF c.user_id = user THEN [c EXCEPT !.is_active = 0] ELSE c : c \in table}

\* POST /llm-config/ (create_llm_config).
create_llm_config(user, provider, api_key) ==
    /\ \E id \in NewIds(llm_configs, ConfigIds) :
          /\ llm_configs' = DeactivateAll(llm_configs, user) \cup
                 {LLMConfig(id, user, provider, encrypt_api_key(api_key), 1)}
          /\ last_op' = [op |-> "create_llm_config", user |-> user,
                         status |-> 201, id |-> id]
    /\ n_ops' = n_ops + 1
    /\ UNCHANGED <<projects, chats, messages, requests>>

\* PUT /llm-config/{config_id} (update_llm_config).
update_llm_config(user, config_id, provider, api_key) ==
    /\ LET config == {c \in llm_configs : c.id = config_id /\ c.user_id = user}
       IN  IF config = {}
           THEN /\ last_op' = [op |-> "update_llm_config", user |-> user,
                               status |-> 404, id |-> config_id]
                /\ UNCHANGED llm_configs
           ELSE /\ llm_configs' =
                      {IF c \in config
                       THEN [c EXCEPT !.provider = provider,
                                      !.encrypted_api_key = encrypt_api_key(api_key)]
                       ELSE c : c \in llm_configs}
                /\ last_op' = [op |-> "update_llm_config", user |-> user,
                               status |-> 200, id |-> config_id]
    /\ n_ops' = n_ops + 1
    /\ UNCHANGED <<projects, chats, messages, requests>>

\* DELETE /llm-config/{config_id} (delete_llm_config).
delete_llm_config(user, config_id) ==
    /\ LET config == {c \in llm_configs : c.id = config_id /\ c.user_id = user}
       IN  IF config = {}
           THEN /\ last_op' = [op |-> "delete_llm_config", user |-> user,
                               status |-> 404, id |-> config_id]
                /\ UNCHANGED llm_configs
           ELSE /\ llm_configs' = llm_configs \ config
                /\ last_op' = [op |-> "delete_llm_config", user |-> user,
                               status |-> 204, id |-> config_id]
    /\ n_ops' = n_ops + 1
    /\ UNCHANGED <<projects, chats, messages, requests>>

ConfigNext ==
    \/ \E u \in UserIds, provider \in Providers, api_key \in ApiKeys :
          n_ops < MaxConfigOps /\ create_llm_config(u, provider, api_key)
    \/ \E u \in UserIds, id \in ConfigIds, provider \in Providers, api_key \in ApiKeys :
          n_ops < MaxConfigOps /\ update_llm_config(u, id, provider, api_key)
    \/ \E u \in UserIds, id \in ConfigIds :
          n_ops < MaxConfigOps /\ delete_llm_config(u, id)

ConfigSpec == Init /\ [][ConfigNext]_vars

(* --------------------------- projects and chats ------------------------ *)

\* Operations on projects and chats in one run, and the ids a row can get.
MaxAdminOps == 2
MaxProjectId == 4
MaxChatId == 4
ProjectIds == 1..MaxProjectId
AllChatIds == 1..MaxChatId

\* str.lower
UpperCase == "ABCDEFGHIJKLMNOPQRSTUVWXYZ"
LowerCase == "abcdefghijklmnopqrstuvwxyz"
RECURSIVE LowerChar(_, _)
LowerChar(c, i) ==
    IF i > Len(UpperCase) THEN c
    ELSE IF SubSeq(UpperCase, i, i) = c THEN SubSeq(LowerCase, i, i)
    ELSE LowerChar(c, i + 1)
RECURSIVE lower(_)
lower(s) == IF s = "" THEN "" ELSE LowerChar(SubSeq(s, 1, 1), 1) \o lower(Tail(s))

\* Path(filename).suffix: from the last dot on, none for a leading dot.
RECURSIVE LastDot(_, _)
LastDot(s, i) ==
    IF i = 0 THEN 0 ELSE IF SubSeq(s, i, i) = "." THEN i ELSE LastDot(s, i - 1)
suffix(filename) ==
    LET dot == LastDot(filename, Len(filename))
    IN  IF dot <= 1 \/ dot = Len(filename) THEN "" ELSE SubSeq(filename, dot, Len(filename))

\* FileHandler.get_file_extension
get_file_extension(filename) == lower(suffix(filename))

\* Files a user uploads, and the extension of each.
Filenames == {"sales.csv", "Orders.JSON", "book.xlsx", "app.sqlite", "notes.txt"}
Extension == [filename \in Filenames |-> get_file_extension(filename)]

\* settings.ALLOWED_EXTENSIONS, and how the list prints.
ALLOWED_EXTENSIONS == {".csv", ".xlsx", ".xls", ".json", ".sqlite"}
AllowedExtensionsStr == "['.csv', '.xlsx', '.xls', '.json', '.sqlite']"

\* FileHandler.validate_file: the HTTPException it raises, if any.
validate_file(filename) ==
    LET file_ext == Extension[filename]
    IN  IF file_ext \notin ALLOWED_EXTENSIONS
        THEN [raised |-> TRUE,
              exc |-> HTTPExceptionStr(400, "File type " \o file_ext
                          \o " not allowed. Allowed types: " \o AllowedExtensionsStr)]
        ELSE [raised |-> FALSE]

\* The extensions create_project has an ingestion branch for.
IngestedExtensions == {".csv", ".xlsx", ".xls", ".json"}

\* What ingestion makes of a readable or an unreadable file, and what
\* generate_schema returns.
IngestResults ==
    {[success |-> TRUE], [success |-> FALSE, error |-> "No columns to parse from file"]}
SchemaResults == {[success |-> TRUE, schema |-> SchemaGenerated],
                  [success |-> FALSE, error |-> "Connection error."]}

\* Lines 41-101 of projects.py: the try block of create_project for the new
\* row `id`; the exception that leaves it, or the path and schema set.
IngestUpload(user, id, filename, ingest, schema_result) ==
    LET valid == validate_file(filename)
        db_path == create_db_for_user(user, id)
        file_ext == Extension[filename]
        llm_config == ActiveConfig(user)
        api_key == decrypt_api_key((CHOOSE c \in llm_config : TRUE).encrypted_api_key)
        done(schema_json) ==
            [raised |-> FALSE, duckdb_file_path |-> db_path, schema_json |-> schema_json]
    IN  IF valid.raised THEN valid
        ELSE IF file_ext \notin IngestedExtensions
        THEN [raised |-> TRUE,
              exc |-> HTTPExceptionStr(400, "Unsupported file type: " \o file_ext)]
        ELSE IF ~ingest.success
        THEN [raised |-> TRUE,
              exc |-> HTTPExceptionStr(500, "Failed to ingest file: " \o ingest.error)]
        ELSE IF llm_config = {} THEN done(SchemaRaw)
        ELSE IF api_key.raised THEN [raised |-> TRUE, exc |-> api_key.exc]
        ELSE IF schema_result.success THEN done(schema_result.schema)
        ELSE done(SchemaRaw)

\* POST /projects/ (create_project): the row is inserted, and deleted again
\* when the try block raises.
create_project(user, filename, ingest, schema_result) ==
    /\ \E id \in NewIds(projects, ProjectIds) :
          LET created == IngestUpload(user, id, filename, ingest, schema_result)
          IN  IF created.raised
              THEN /\ last_op' = [op |-> "create_project", user |-> user, id |-> id,
                                  filename |-> filename, status |-> 500,
                                  detail |-> "Failed to create project: " \o created.exc]
                   /\ UNCHANGED projects
              ELSE /\ projects' = projects \cup
                         {[id |-> id, user_id |-> user,
                           duckdb_file_path |-> created.duckdb_file_path,
                           schema_json |-> created.schema_json]}
                   /\ last_op' = [op |-> "create_project", user |-> user, id |-> id,
                                  filename |-> filename, status |-> 201, detail |-> None]
    /\ n_ops' = n_ops + 1
    /\ UNCHANGED <<llm_configs, chats, messages, requests>>

\* The project looked up whoever owns it.
MutOwnProject(user, project_id) == {p \in projects : p.id = project_id}

\* db.query(Project).filter(Project.id == project_id,
\*                          Project.user_id == current_user.id).first()
OwnProject(user, project_id) ==
    {p \in projects : p.id = project_id /\ p.user_id = user}

\* PUT /projects/{project_id}/schema (update_schema).
update_schema(user, project_id, schema_json) ==
    /\ LET project == OwnProject(user, project_id)
       IN  IF project = {}
           THEN /\ last_op' = [op |-> "update_schema", user |-> user, id |-> project_id,
                               status |-> 404, detail |-> "Project not found"]
                /\ UNCHANGED projects
           ELSE /\ projects' = {IF p \in project
                                THEN [p EXCEPT !.schema_json = schema_json]
                                ELSE p : p \in projects}
                /\ last_op' = [op |-> "update_schema", user |-> user, id |-> project_id,
                               status |-> 200, detail |-> None]
    /\ n_ops' = n_ops + 1
    /\ UNCHANGED <<llm_configs, chats, messages, requests>>

\* The turns of the deleted chats kept.
MutDeleteTurnsOf(table, chat_ids) == table

\* Chat.messages, cascade="all, delete-orphan": the turns of deleted chats
\* are deleted with them.
DeleteTurnsOf(table, chat_ids) == SelectSeq(table, LAMBDA m : m.chat_id \notin chat_ids)

\* DELETE /projects/{project_id} (delete_project); Project.chats cascades.
delete_project(user, project_id) ==
    /\ LET project == OwnProject(user, project_id)
           its_chats == {c \in chats : c.project_id = project_id}
       IN  IF project = {}
           THEN /\ last_op' = [op |-> "delete_project", user |-> user, id |-> project_id,
                               status |-> 404, detail |-> "Project not found"]
                /\ UNCHANGED <<projects, chats, messages>>
           ELSE /\ projects' = projects \ project
                /\ chats' = chats \ its_chats
                /\ messages' = DeleteTurnsOf(messages, {c.id : c \in its_chats})
                /\ last_op' = [op |-> "delete_project", user |-> user, id |-> project_id,
                               status |-> 204, detail |-> None]
    /\ n_ops' = n_ops + 1
    /\ UNCHANGED <<llm_configs, requests>>

\* POST /chat/ (create_chat).
create_chat(user, project_id) ==
    /\ LET project == OwnProject(user, project_id)
       IN  IF project = {}
           THEN /\ last_op' = [op |-> "create_chat", user |-> user, id |-> project_id,
                               status |-> 404, detail |-> "Project not found"]
                /\ UNCHANGED chats
           ELSE \E id \in NewIds(chats, AllChatIds) :
                /\ chats' = chats \cup
                      {[id |-> id, user_id |-> user, project_id |-> project_id]}
                /\ last_op' = [op |-> "create_chat", user |-> user, id |-> id,
                               status |-> 201, detail |-> None]
    /\ n_ops' = n_ops + 1
    /\ UNCHANGED <<llm_configs, projects, messages, requests>>

\* DELETE /chat/{chat_id} (delete_chat).
delete_chat(user, chat_id) ==
    /\ LET chat == {c \in chats : c.id = chat_id /\ c.user_id = user}
       IN  IF chat = {}
           THEN /\ last_op' = [op |-> "delete_chat", user |-> user, id |-> chat_id,
                               status |-> 404, detail |-> "Chat not found"]
                /\ UNCHANGED <<chats, messages>>
           ELSE /\ chats' = chats \ chat
                /\ messages' = DeleteTurnsOf(messages, {chat_id})
                /\ last_op' = [op |-> "delete_chat", user |-> user, id |-> chat_id,
                               status |-> 204, detail |-> None]
    /\ n_ops' = n_ops + 1
    /\ UNCHANGED <<llm_configs, projects, requests>>

\* The provider a configuration is given between query requests.
AdminProviders == {"google"}

\* The query requests made between the operations.
AdminReqs == {1}

\* No query request is between its first and its last step.
Quiescent == \A r \in Reqs : pc[r] \in {"idle", "done"}

\* An operation on projects, chats or configurations may be called.
MayOperate == Quiescent /\ n_ops < MaxAdminOps

\* Query requests, and between them operations on projects, chats and
\* configurations.
AdminNext ==
    \/ \E r \in AdminReqs, u \in UserIds, c \in AllChatIds, q \in Questions :
          Quiescent /\ QueryStart(r, u, c, q)
    \/ \E r \in Reqs : Setup(r)
    \/ \E r \in Reqs : GenerateSql(r)
    \/ \E r \in Reqs : Execute(r)
    \/ \E r \in Reqs : Repair(r)
    \/ \E r \in Reqs : ReExecute(r)
    \/ \E r \in Reqs : StoreError(r)
    \/ \E r \in Reqs : Interpret(r)
    \/ \E r \in Reqs : StoreAnswer(r)
    \/ \E r \in Reqs : HandleException(r)
    \/ \E u \in UserIds, filename \in Filenames,
          ingest \in IngestResults, schema_result \in SchemaResults :
          MayOperate /\ create_project(u, filename, ingest, schema_result)
    \/ \E u \in UserIds, id \in ProjectIds :
          MayOperate /\ update_schema(u, id, SchemaEdited)
    \/ \E u \in UserIds, id \in ProjectIds : MayOperate /\ delete_project(u, id)
    \/ \E u \in UserIds, id \in ProjectIds : MayOperate /\ create_chat(u, id)
    \/ \E u \in UserIds, id \in AllChatIds : MayOperate /\ delete_chat(u, id)
    \/ \E u \in UserIds, provider \in AdminProviders, api_key \in ApiKeys :
          MayOperate /\ create_llm_config(u, provider, api_key)
    \/ \E u \in UserIds, id \in ConfigIds, provider \in AdminProviders, api_key \in ApiKeys :
          MayOperate /\ update_llm_config(u, id, provider, api_key)
    \/ \E u \in UserIds, id \in ConfigIds :
          MayOperate /\ delete_llm_config(u, id)

AdminSpec == Init /\ [][AdminNext]_vars

(* ------------- query_data when an exception follows the commit --------- *)

\* One question, whose assistant turn may be committed and then fail to be
\* refreshed or returned.
AfterCommitNext ==
    \/ \E r \in AdminReqs, u \in UserIds, c \in ChatIds, q \in Questions :
          QueryStart(r, u, c, q)
    \/ \E r \in Reqs : Setup(r)
    \/ \E r \in Reqs : GenerateSql(r)
    \/ \E r \in Reqs : Execute(r)
    \/ \E r \in Reqs : Repair(r)
    \/ \E r \in Reqs : ReExecute(r)
    \/ \E r \in Reqs : StoreError(r)
    \/ \E r \in Reqs : Interpret(r)
    \/ \E r \in Reqs : StoreAnswer(r)
    \/ \E r \in Reqs : HandleException(r)
    \/ \E r \in Reqs : StoreErrorRefreshRaises(r)
    \/ \E r \in Reqs : StoreAnswerRefreshRaises(r)

AfterCommitSpec == Init /\ [][AfterCommitNext]_vars

(* ------------------- the generator's clean-up, called alone ------------ *)

\* Statements a model writes, and the language tags it puts on a fence.
Statements ==
    {"SELECT 1", SqlCount, SqlDates, "SELECT a,\n       b\nFROM data", "SELECT 1;"}
LanguageTags == {"", "sql", "SQL", "postgresql", "sqlite", "duckdb"}
Paddings == {"", "\n", " "}

\* One statement in a fenced code block: the opening fence with its tag, the
\* statement, the closing fence; the model may add blank space around it.
Fenced(tag, statement, before, after) ==
    before \o Fence \o tag \o "\n" \o statement \o "\n" \o Fence \o after

\* text_to_sql called with a model that replies with a fenced statement.
CallTextToSql(tag, statement, before, after) ==
    /\ LET content == Fenced(tag, statement, before, after)
       IN  last_op' = [op |-> "text_to_sql", tag |-> tag, statement |-> statement,
                       content |-> content,
                       result |-> text_to_sql("q", EmptyDict, <<>>,
                                      [raised |-> FALSE, content |-> content])]
    /\ UNCHANGED <<llm_configs, projects, chats, messages, requests, n_ops>>

\* fix_sql_error called with a model that replies with a fenced statement.
CallFixSqlError(tag, statement, before, after) ==
    /\ LET content == Fenced(tag, statement, before, after)
       IN  last_op' = [op |-> "fix_sql_error", tag |-> tag, statement |-> statement,
                       content |-> content,
                       result |-> fix_sql_error(SqlBad, "Parser Error", EmptyDict,
                                      [raised |-> FALSE, content |-> content])]
    /\ UNCHANGED <<llm_configs, projects, chats, messages, requests, n_ops>>

CleanupNext ==
    \/ \E tag \in LanguageTags, statement \in Statements,
          before \in Paddings, after \in Paddings :
            CallTextToSql(tag, statement, before, after)
    \/ \E tag \in LanguageTags, statement \in Statements,
          before \in Paddings, after \in Paddings :
            CallFixSqlError(tag, statement, before, after)

CleanupSpec == Init /\ [][CleanupNext]_vars

(* ------------------------------ properties ----------------------------- *)

Last(seq) == seq[Len(seq)]

\* Positions in the messages table of the turns request r wrote.
UserTurns(r) ==
    {i \in 1..Len(messages) : messages[i].req = r /\ messages[i].role = "user"}
AssistantTurns(r) ==
    {i \in 1..Len(messages) : messages[i].req = r /\ messages[i].role = "assistant"}

\* The request got a ChatQueryResponse / got an HTTP error.
Answered(r) == resp[r].status = 200
Failed(r) == resp[r].status \in {400, 404, 500}

\* An assistant turn that reports a failed execution: statement and error
\* text present, no rows.
FailedShaped(m) ==
    /\ m.role = "assistant"
    /\ m.sql_query # None
    /\ m.error_message # None
    /\ m.query_result = None

\* The turn in the response is the one assistant turn the request stored.
ReturnsItsOnlyTurn(r) ==
    /\ Cardinality(AssistantTurns(r)) = 1
    /\ \A i \in AssistantTurns(r) : messages[i] = resp[r].message

\* Generator and repair returned statements and no execution succeeded.
ExecutorAlwaysFailed(r) ==
    /\ Len(obs[r].generation) >= 1
    /\ \A i \in 1..Len(obs[r].generation) : obs[r].generation[i] = "ok"
    /\ \A i \in 1..Len(obs[r].repair) : obs[r].repair[i] = "ok"
    /\ \A i \in 1..Len(obs[r].executions) : ~obs[r].executions[i].result.success

\* C1: per question at most one generation call, one repair call and two
\* executions are made, whatever the collaborators do; and a question whose
\* generator and repair return statements while every execution fails ends
\* after exactly one generation, one execution, one repair and one
\* re-execution, answered with its one assistant turn, which is FAILED-shaped.
C1_RepairBound ==
    \A r \in Reqs :
        /\ Len(obs[r].generation) <= 1
        /\ Len(obs[r].repair) <= 1
        /\ Len(obs[r].executions) <= 2
        /\ (pc[r] = "done" /\ ExecutorAlwaysFailed(r)) =>
              /\ Len(obs[r].generation) = 1
              /\ Len(obs[r].executions) = 2
              /\ Len(obs[r].repair) = 1
              /\ Len(obs[r].interpretation) = 0
              /\ Answered(r)
              /\ ReturnsItsOnlyTurn(r)
              /\ FailedShaped(resp[r].message)

\* A question ended after two executions that both failed.
C1_Witness ==
    \E r \in Reqs :
        /\ pc[r] = "done"
        /\ ExecutorAlwaysFailed(r)
        /\ Len(obs[r].executions) = 2

ChatResolved(r) == FindChat(inp[r].chat_id, inp[r].user) # {}
ModelConfigured(r) == ActiveConfig(inp[r].user) # {}
GenerationFailed(r) == Len(obs[r].generation) >= 1 /\ Last(obs[r].generation) = "failed"
LastExecutionFailed(r) ==
    Len(obs[r].executions) >= 1 /\ ~Last(obs[r].executions).result.success

\* C2 as stated: a request fails only when the chat is not resolved or no
\* model is configured, and a failed generation, execution, repair or
\* re-execution ends in an answered request with an error-shaped turn.
C2_Original ==
    \A r \in Reqs :
        pc[r] = "done" =>
            /\ Failed(r) => (~ChatResolved(r) \/ ~ModelConfigured(r))
            /\ (GenerationFailed(r) \/ LastExecutionFailed(r)) =>
                  /\ Answered(r)
                  /\ resp[r].message.error_message # None

\* C2 amended: a request fails with 404 exactly when the chat is not resolved
\* for the user, with 400 exactly when it is and no model is configured, and
\* with 500 exactly when SQL generation failed or another exception was
\* raised in the pipeline, in which case one assistant error turn carrying
\* the exception text is stored first.  A failed execution whose repair call
\* fails or whose re-execution fails ends in an answered request that carries
\* a FAILED-shaped turn.
C2_Amended ==
    \A r \in Reqs :
        pc[r] = "done" =>
            /\ resp[r].status = 404 <=> ~ChatResolved(r)
            /\ resp[r].status = 400 <=> (ChatResolved(r) /\ ~ModelConfigured(r))
            /\ resp[r].status = 500 <=> obs[r].raised_in # None
            /\ GenerationFailed(r) =>
                  /\ resp[r].status = 500
                  /\ Cardinality(AssistantTurns(r)) = 1
                  /\ \A i \in AssistantTurns(r) :
                        /\ messages[i].error_message = resp[r].detail
                        /\ messages[i].sql_query = None
            /\ LastExecutionFailed(r) =>
                  /\ Answered(r)
                  /\ ReturnsItsOnlyTurn(r)
                  /\ FailedShaped(resp[r].message)

\* A question whose generation call failed has ended.
C2_Witness == \E r \in Reqs : pc[r] = "done" /\ GenerationFailed(r)

\* C3: a request that stored its user turn and has ended left an assistant
\* turn after that user turn, and when it ended by an exception the caller
\* got a request failure (500) with the exception text.
C3_AssistantTurnForEveryUserTurn ==
    \A r \in Reqs :
        (pc[r] = "done" /\ UserTurns(r) # {}) =>
            /\ \A i \in UserTurns(r) : \E j \in AssistantTurns(r) : i < j
            /\ obs[r].raised_in # None =>
                  /\ resp[r].status = 500
                  /\ resp[r].detail = loc[r].exc
                  /\ \E j \in AssistantTurns(r) : messages[j].error_message = loc[r].exc

\* A question ended by the exception of a failed generation, and one by an
\* exception raised after the execution.
C3_Witness ==
    /\ \E r \in Reqs : pc[r] = "done" /\ obs[r].raised_in = "text_to_sql"
    /\ \E r \in Reqs : pc[r] = "done" /\ obs[r].raised_in = "interpret_results"

\* The steps of query_data after the user turn is stored.
InPipeline(r) ==
    pc[r] \in {"setup", "generate", "execute", "repair", "reexecute", "interpret",
               "store_error", "store_answer", "except"}

\* C4: from the first step after the look-ups to the end, whenever a
\* generation call has been made and whenever an assistant turn of the
\* question exists, the chat holds the question's user turn, stored before
\* every assistant turn of the question.
C4_UserTurnFirst ==
    \A r \in Reqs :
        (InPipeline(r) \/ Len(obs[r].generation) > 0 \/ AssistantTurns(r) # {}) =>
            /\ Cardinality(UserTurns(r)) = 1
            /\ \A i \in UserTurns(r) :
                  /\ messages[i].chat_id = inp[r].chat_id
                  /\ messages[i].content = inp[r].query
                  /\ \A j \in AssistantTurns(r) : i < j

\* A question in the middle of the pipeline: executed, not yet answered.
C4_Witness ==
    \E r \in Reqs :
        /\ pc[r] = "interpret"
        /\ UserTurns(r) # {}
        /\ AssistantTurns(r) = {}

\* C5 as stated: with the chat resolved and no active configuration the
\* request fails and the user turn is the one turn added.
C5_Original ==
    \A r \in Reqs :
        (pc[r] = "done" /\ ChatResolved(r) /\ ~ModelConfigured(r)) =>
            /\ resp[r].status = 400
            /\ Cardinality(UserTurns(r)) = 1
            /\ AssistantTurns(r) = {}

\* C5 amended: with the chat resolved and no active configuration the
\* request fails at once with 400 and adds no turn at all, neither the user
\* turn nor an assistant turn.
C5_NoTurnWithoutConfig ==
    \A r \in Reqs :
        (pc[r] = "done" /\ ChatResolved(r) /\ ~ModelConfigured(r)) =>
            /\ resp[r].status = 400
            /\ UserTurns(r) = {}
            /\ AssistantTurns(r) = {}
            /\ obs[r] = NoCalls

\* A question to the user's own chat ended without an active configuration.
C5_Witness ==
    \E r \in Reqs : pc[r] = "done" /\ ChatResolved(r) /\ ~ModelConfigured(r)

\* C6: once the generator has reported failure, no store is opened, no
\* statement is executed, no repair or interpretation call is made, the
\* question goes straight to the exception handler, and it ends with exactly
\* one assistant turn, an error turn that carries the generator's error.
C6_GenerationFailureStops ==
    \A r \in Reqs :
        GenerationFailed(r) =>
            /\ obs[r].opened = <<>>
            /\ conn[r] = None
            /\ obs[r].executions = <<>>
            /\ obs[r].repair = <<>>
            /\ obs[r].interpretation = <<>>
            /\ pc[r] \in {"except", "done"}
            /\ pc[r] = "done" =>
                  /\ Cardinality(AssistantTurns(r)) = 1
                  /\ \A i \in AssistantTurns(r) :
                        /\ messages[i].error_message =
                              HTTPExceptionStr(500, "Failed to generate SQL: " \o LLMRaises.exc)
                        /\ messages[i].content =
                              "An error occurred: " \o messages[i].error_message
                        /\ messages[i].sql_query = None
                        /\ messages[i].query_result = None

\* A question ended after its generation call failed, its error turn stored.
C6_Witness ==
    \E r \in Reqs :
        /\ pc[r] = "done"
        /\ GenerationFailed(r)
        /\ AssistantTurns(r) # {}

LastExecutionSucceeded(r) ==
    Len(obs[r].executions) >= 1 /\ Last(obs[r].executions).result.success

\* C7: a question answered after an execution that succeeded stored one
\* assistant turn whose content is the interpreted answer, whose sql_query is
\* the statement of that execution (the repaired one, which is not the first
\* one, after a repair), whose query_result is the serialized rows of that
\* execution and whose error_message is null; the response returns that turn,
\* the same rows as data and the visualization type of the interpretation.
C7_AnswerTurn ==
    \A r \in Reqs :
        (pc[r] = "done" /\ Answered(r) /\ LastExecutionSucceeded(r)) =>
            LET last == Last(obs[r].executions)
                m == resp[r].message
            IN  /\ ReturnsItsOnlyTurn(r)
                /\ m.role = "assistant"
                /\ m.content = loc[r].answer
                /\ m.content # None
                /\ m.sql_query = last.sql
                /\ Len(obs[r].executions) = 2 =>
                      /\ m.sql_query # obs[r].executions[1].sql
                      /\ m.sql_query = SqlCount
                /\ m.query_result = json_dumps(last.result.data).text
                /\ m.error_message = None
                /\ resp[r].data = <<last.result.data>>
                /\ resp[r].visualization_type = loc[r].viz_type
                /\ Last(obs[r].interpretation) = [raised |-> FALSE, content |-> JsonFull] =>
                      /\ m.content = "There are 42 rows."
                      /\ resp[r].visualization_type = "bar"

\* A question answered after the first execution failed and the execution of
\* the repaired statement succeeded.
C7_Witness ==
    \E r \in Reqs :
        /\ pc[r] = "done"
        /\ Answered(r)
        /\ Len(obs[r].executions) = 2
        /\ LastExecutionSucceeded(r)

\* C8: a question that ended after a failed execution (the repair call failed,
\* or the execution of the repaired statement failed) stored one assistant
\* turn whose sql_query is the last statement executed, whose error_message
\* is the engine error of that last execution and whose query_result is
\* null; the response returns that turn with data null and
\* visualization_type null.
C8_ErrorTurn ==
    \A r \in Reqs :
        (pc[r] = "done" /\ LastExecutionFailed(r)) =>
            LET last == Last(obs[r].executions)
                m == resp[r].message
            IN  /\ Answered(r)
                /\ ReturnsItsOnlyTurn(r)
                /\ Len(obs[r].repair) = 1
                /\ (obs[r].repair = <<"failed">>) <=> (Len(obs[r].executions) = 1)
                /\ m.role = "assistant"
                /\ m.sql_query = last.sql
                /\ m.error_message = last.result.error
                /\ m.error_message = Engine(obs[r].opened[1], last.sql).error
                /\ m.query_result = None
                /\ resp[r].data = <<>>
                /\ resp[r].visualization_type = None

\* One question ended after its repair call failed, and one after the
\* repaired statement failed with another engine error than the first.
C8_Witness ==
    /\ \E r \in Reqs :
          /\ pc[r] = "done"
          /\ obs[r].repair = <<"failed">>
          /\ Len(obs[r].executions) = 1
    /\ \E r \in Reqs :
          /\ pc[r] = "done"
          /\ Len(obs[r].executions) = 2
          /\ LastExecutionFailed(r)
          /\ obs[r].executions[1].result.error # obs[r].executions[2].result.error

InterpretationCallFailed(r) ==
    Len(obs[r].interpretation) >= 1 /\ Last(obs[r].interpretation).raised

\* C9 as stated: when the model call made for interpretation fails, the
\* request ends as a request failure and the assistant turn stored for the
\* question carries the raw error in error_message.
C9_Original ==
    \A r \in Reqs :
        (pc[r] = "done" /\ InterpretationCallFailed(r)) =>
            /\ Failed(r)
            /\ \E i \in AssistantTurns(r) :
                  messages[i].error_message = Last(obs[r].interpretation).exc

\* C9 amended: when the model call made for interpretation fails, the
\* request is answered: the one assistant turn stored has the canned content
\* "Found n results." for the n rows of the execution, the statement
\* executed, the serialized rows and a null error_message, the response has
\* the rows as data and visualization type "table", and the raw error is in
\* no turn of the question.
C9_InterpretationFailureAbsorbed ==
    \A r \in Reqs :
        (pc[r] = "done" /\ InterpretationCallFailed(r)) =>
            LET last == Last(obs[r].executions)
                m == resp[r].message
                raw == Last(obs[r].interpretation).exc
            IN  /\ Answered(r)
                /\ ReturnsItsOnlyTurn(r)
                /\ m.content = "Found " \o IntToStr(last.result.row_count) \o " results."
                /\ m.sql_query = last.sql
                /\ m.query_result = json_dumps(last.result.data).text
                /\ m.error_message = None
                /\ resp[r].data = <<last.result.data>>
                /\ resp[r].visualization_type = "table"
                /\ \A i \in AssistantTurns(r) :
                      /\ messages[i].error_message # raw
                      /\ messages[i].content # raw
                      /\ messages[i].content # "An error occurred: " \o raw

\* A question ended after its interpretation call failed.
C9_Witness == \E r \in Reqs : pc[r] = "done" /\ InterpretationCallFailed(r)

\* The interpretation replies that are not JSON or lack expected fields.
MalformedReplies == {NotJson, JsonNoViz, JsonNoFields, JsonList}

\* The canned interpretation for n rows.
Canned(n) ==
    [answer |-> "Found " \o IntToStr(n) \o " results.", insights |-> <<>>,
     visualization_type |-> "table"]

\* C10 as stated: for a reply that is not parsable JSON interpret_results
\* returns success with the canned interpretation for the n rows, and a
\* question whose interpretation reply is not JSON or is JSON lacking the
\* expected fields is answered, with the reply's answer and visualization
\* type where it has them and the canned answer and "table" where it has not.
C10_MalformedInterpretationAnswered ==
    \A r \in Reqs :
        (pc[r] = "done" /\ Len(obs[r].interpretation) >= 1
            /\ ~Last(obs[r].interpretation).raised
            /\ Last(obs[r].interpretation).content \in MalformedReplies) =>
            LET last == Last(obs[r].executions)
                reply == Last(obs[r].interpretation)
                parsed == json_loads(strip(reply.content))
                given == IF ~parsed.raised /\ parsed.type = "dict"
                         THEN parsed.value ELSE EmptyDict
                canned == Canned(last.result.row_count)
                unparsable == interpret_results(inp[r].query, last.sql, last.result.data,
                                                [raised |-> FALSE, content |-> NotJson])
            IN  /\ unparsable.success
                /\ unparsable.interpretation = [type |-> "dict", value |-> canned]
                /\ Answered(r)
                /\ resp[r].message.content = DictGet(given, "answer", canned.answer)
                /\ resp[r].message.error_message = None
                /\ resp[r].visualization_type =
                      DictGet(given, "visualization_type", canned.visualization_type)

\* The visualization tags the interpretation prompt asks for.
VisualizationTags == {"bar", "line", "pie", "scatter", "table"}

\* C11: in every response of query_data that carries a visualization type,
\* the type is null or one of bar, line, pie, scatter, table, whatever the
\* model wrote in its interpretation.
C11_VisualizationTypeIsATag ==
    \A r \in Reqs :
        (pc[r] = "done" /\ Answered(r)) =>
            resp[r].visualization_type \in VisualizationTags \cup {None}

\* The last n turns stored for a chat, oldest first, as {role, content}.
LastTurns(chat_id, n) ==
    LET turns == TurnsOf(chat_id)
        first == IF Len(turns) > n THEN Len(turns) - n + 1 ELSE 1
    IN  [i \in 1..(Len(turns) - first + 1) |->
            [role |-> turns[first + i - 1].role,
             content |-> turns[first + i - 1].content]]

\* C12: whenever a question's history is read for the generator, it is the
\* last turns stored for the question's chat (at most 5 and no more than are
\* stored), and they are in the order in which they were stored, oldest
\* first.
C12_HistoryIsLastTurnsInOrder ==
    [][\A r \in Reqs :
          (pc[r] = "setup" /\ pc'[r] = "generate") =>
              /\ Len(loc'[r].chat_history) <= HistoryLimit
              /\ Len(loc'[r].chat_history) <= Len(TurnsOf(inp[r].chat_id))
              /\ loc'[r].chat_history = LastTurns(inp[r].chat_id, HistoryLimit)]_vars

\* C13: for a reply that is one statement in a fenced code block, with or
\* without a language tag on the opening fence, text_to_sql and
\* fix_sql_error return success with exactly the statement.
C13_FenceStripped ==
    last_op.op \in {"text_to_sql", "fix_sql_error"} =>
        /\ last_op.result.success
        /\ last_op.result.sql = last_op.statement

\* C14: every call of execute_query returns an outcome and raises nothing:
\* either success with the engine's rows and columns and row_count equal to
\* the number of rows, or success = false with the engine's error text as
\* it is and the statement that was attempted.
C14_ExecuteQueryOutcome ==
    \A r \in Reqs : \A i \in 1..Len(obs[r].executions) :
        LET attempted == obs[r].executions[i].sql
            outcome == obs[r].executions[i].result
            engine == Engine(obs[r].opened[1], attempted)
        IN  /\ "success" \in DOMAIN outcome
            /\ outcome.success =>
                  /\ engine.ok
                  /\ DOMAIN outcome = {"success", "data", "columns", "row_count"}
                  /\ outcome.data = engine.rows
                  /\ outcome.columns = engine.columns
                  /\ outcome.row_count = Len(outcome.data)
            /\ ~outcome.success =>
                  /\ ~engine.ok
                  /\ DOMAIN outcome = {"success", "error", "sql"}
                  /\ outcome.error = engine.error
                  /\ outcome.sql = attempted

\* A question made one execution that failed and one that succeeded.
C14_Witness ==
    \E r \in Reqs :
        /\ Len(obs[r].executions) = 2
        /\ ~obs[r].executions[1].result.success
        /\ obs[r].executions[2].result.success
        /\ obs[r].executions[2].result.row_count = 1

\* The steps of query_data inside the with block of line 176.
InWithBlock(r) ==
    pc[r] \in {"repair", "reexecute", "interpret", "store_error", "store_answer"}

\* C15: a request holds a connection only inside the with block, it opens
\* at most one, and when it has left the block (to the exception handler or
\* to its end) the connection is closed, whether the block was left after
\* the answer turn, after the error turn or by an exception raised during
\* repair, interpretation or a commit.
C15_ConnectionClosed ==
    \A r \in Reqs :
        /\ Len(obs[r].opened) <= 1
        /\ conn[r] # None => (InWithBlock(r) /\ obs[r].opened = <<conn[r]>>)
        /\ InWithBlock(r) => conn[r] # None
        /\ pc[r] \in {"except", "done"} => conn[r] = None

\* One request ended after an exception raised by a commit while its
\* connection was open, and one after an exception raised in interpretation
\* or repair.
C15_Witness ==
    /\ \E r \in Reqs :
          /\ pc[r] = "done"
          /\ obs[r].opened # <<>>
          /\ loc[r].exc = CommitError
    /\ \E r \in Reqs :
          /\ pc[r] = "done"
          /\ obs[r].opened # <<>>
          /\ loc[r].exc \in {PromptError, "'list' object has no attribute 'get'"}

\* What the calls of a question look like when they were made in sequence.
CallsInSequence(r) ==
    /\ pc[r] = "execute" => obs[r].generation = <<"ok">>
    /\ obs[r].executions # <<>> => obs[r].generation = <<"ok">>
    /\ pc[r] = "repair" => (Len(obs[r].executions) = 1 /\ LastExecutionFailed(r))
    /\ obs[r].repair # <<>> =>
          (Len(obs[r].executions) >= 1 /\ ~obs[r].executions[1].result.success)
    /\ pc[r] = "reexecute" => (obs[r].repair = <<"ok">> /\ Len(obs[r].executions) = 1)
    /\ Len(obs[r].executions) = 2 => obs[r].repair = <<"ok">>
    /\ pc[r] \in {"interpret", "store_answer"} => LastExecutionSucceeded(r)
    /\ obs[r].interpretation # <<>> => LastExecutionSucceeded(r)
    /\ LastExecutionFailed(r) => obs[r].interpretation = <<>>

\* A step of a question makes a call only when the call before it has
\* returned what the call needs.
CallsStepInSequence(r) ==
    /\ Len(obs'[r].generation) > Len(obs[r].generation) =>
          (obs[r].executions = <<>> /\ obs[r].repair = <<>> /\ obs[r].interpretation = <<>>)
    /\ Len(obs'[r].executions) > Len(obs[r].executions) =>
          /\ obs[r].generation = <<"ok">>
          /\ Last(obs'[r].executions).sql = loc[r].sql_query
          /\ obs[r].executions # <<>> => (obs[r].repair = <<"ok">> /\ LastExecutionFailed(r))
          /\ obs[r].interpretation = <<>>
    /\ Len(obs'[r].repair) > Len(obs[r].repair) =>
          (Len(obs[r].executions) = 1 /\ LastExecutionFailed(r))
    /\ Len(obs'[r].interpretation) > Len(obs[r].interpretation) =>
          LastExecutionSucceeded(r)

\* C16: within one question execution starts only after generation has
\* returned a statement, the repair call is made only after a failed
\* execution, the re-execution only after a repair call that returned a
\* statement, interpretation only after an execution that succeeded, and
\* never for a question whose last execution failed.
C16_StepsSequential ==
    /\ [](\A r \in Reqs : CallsInSequence(r))
    /\ [][\A r \in Reqs : CallsStepInSequence(r)]_vars

\* A question went through generation, execution, repair, re-execution and
\* interpretation.
C16_Witness ==
    \E r \in Reqs :
        /\ obs[r].generation = <<"ok">>
        /\ Len(obs[r].executions) = 2
        /\ obs[r].repair = <<"ok">>
        /\ Len(obs[r].interpretation) = 1

\* C19: after any sequence of create, update and delete operations on
\* configurations every user has at most one configuration with
\* is_active = 1, and directly after a create by a user that user's active
\* configuration is the one just created.
C19_OneActiveConfig ==
    /\ \A u \in UserIds : Cardinality(ActiveConfig(u)) <= 1
    /\ last_op.op = "create_llm_config" =>
          /\ last_op.status = 201
          /\ \E c \in llm_configs : c.id = last_op.id /\ c.user_id = last_op.user
          /\ ActiveConfig(last_op.user) = {c \in llm_configs : c.id = last_op.id}

\* A user who had an active configuration has created two more, and the
\* first one is no longer active.
C19_Witness ==
    /\ last_op.op = "create_llm_config"
    /\ last_op.user = 1
    /\ n_ops >= 2
    /\ Cardinality({c \in llm_configs : c.user_id = 1}) >= 3
    /\ \E c \in llm_configs : c.id = 1 /\ c.is_active = 0

\* The text starts with the prefix.
StartsWith(text, prefix) ==
    Len(text) >= Len(prefix) /\ SubSeq(text, 1, Len(prefix)) = prefix

\* C20: creating a project from a file whose extension passes upload
\* validation but has no ingestion branch (.sqlite) is answered with status
\* 400 and a detail that says 'Unsupported file type'.
C20_UnsupportedFileType400 ==
    (/\ last_op.op = "create_project"
     /\ Extension[last_op.filename] \in ALLOWED_EXTENSIONS \ IngestedExtensions)
    => /\ last_op.status = 400
       /\ StartsWith(last_op.detail, "Unsupported file type")

\* The ids of the chats a step deletes.
DeletedChats == {c.id : c \in chats} \ {c.id : c \in chats'}

\* C17: the turns are append-only and immutable.  In every step of query
\* requests, schema updates and the other operations, the turns stored
\* before the step, those of the chats the step deletes left out, are a
\* prefix of the turns after it: each is still there, with every field
\* unchanged and in the same order.  Turns disappear only when their chat
\* is deleted, alone or with its project, and then no turn of it is left.
C17_TurnsAppendOnly ==
    [][LET kept == SelectSeq(messages, LAMBDA m : m.chat_id \notin DeletedChats)
       IN  /\ Len(messages') >= Len(kept)
           /\ SubSeq(messages', 1, Len(kept)) = kept
           /\ \A i \in 1..Len(messages') : messages'[i].chat_id \notin DeletedChats
           /\ DeletedChats # {} =>
                 /\ last_op'.op \in {"delete_chat", "delete_project"}
                 /\ last_op'.status = 204]_vars

\* A question on a chat was answered, and then the project of the chat was
\* deleted: no turn is left.
C17_Witness ==
    /\ \E r \in Reqs :
          /\ pc[r] = "done"
          /\ resp[r].status = 200
          /\ \A c \in chats : c.id # inp[r].chat_id
    /\ last_op.op = "delete_project"
    /\ last_op.status = 204
    /\ messages = <<>>

Alternates(chat_id) ==
    LET turns == TurnsOf(chat_id)
    IN  \A i \in 1..Len(turns) :
            IF i % 2 = 1
            THEN turns[i].role = "user"
            ELSE /\ turns[i].role = "assistant"
                 /\ turns[i - 1].role = "user"
                 /\ turns[i].req = turns[i - 1].req

\* C21: also when two query requests for the same chat overlap in time, the
\* turns of every chat alternate user, assistant, and each assistant turn
\* directly follows the user turn of the question it answers.
C21_TurnsAlternate == \A c \in chats : Alternates(c.id)

\* C22: each question adds at most one assistant turn to its chat, and a
\* request that has stored its user turn and has ended has exactly one, on
\* every path through query_data, an exception raised after the assistant
\* turn was committed included.
C22_OneAssistantTurn ==
    \A r \in Reqs :
        /\ Cardinality(AssistantTurns(r)) <= 1
        /\ (pc[r] = "done" /\ UserTurns(r) # {}) => Cardinality(AssistantTurns(r)) = 1

\* C23: whenever a question's history is read for the generator, its newest
\* entry is the user turn just stored for the question, so that it holds at
\* most 4 turns from before the question and the question text reaches the
\* generator in the history as well as as the question.
C23_HistoryEndsWithQuestion ==
    [][\A r \in Reqs :
          (pc[r] = "setup" /\ pc'[r] = "generate") =>
              LET chat_history == loc'[r].chat_history
              IN  /\ Len(chat_history) >= 1
                  /\ Len(chat_history) - 1 <= HistoryLimit - 1
                  /\ Last(chat_history) = [role |-> "user", content |-> inp[r].query]]_vars

====
